---- MODULE Spec2Model ----
(***************************************************************************)
(* A model of rs_tar (crate pt): the tar header codec of src/src/tar.rs,   *)
(* the image scanner of src/src/base.rs (read_img_at,                      *)
(* tar_hdr_read_internal, read_file_header, get_file_at, for_each_entry)   *)
(* and the entry handle TarFile (Read, Seek) over the shared open file.    *)
(*                                                                         *)
(* A byte is a number in 0..255.  A 512-byte block is a record holding the *)
(* header fields the code reads.  The numeric fields the code parses       *)
(* (size, chksum) are kept as byte sequences; the text fields (name,       *)
(* linkname) are kept as [valid, text]: whether the field's bytes are      *)
(* valid UTF-8, and the bytes before the trailing NULs as a string.  The   *)
(* bytes outside the chksum field enter the checksum only through their    *)
(* sum, so a block carries that sum (usum) and the number of those bytes   *)
(* that are >= 128 (nhigh), which is what the signed reading subtracts     *)
(* 256 for.                                                                *)
(***************************************************************************)
EXTENDS Integers, Sequences, FiniteSets, TLC

VARIABLES
    blocks,          \* the backing file: its 512-byte blocks, in order
    filePos,         \* the offset of the open file description (shared by every try_clone)
    last_link_name,  \* TarImage.last_link_name
    pc,              \* for_each_entry: "idle", "loop", "returned" or "panicked"
    off,             \* for_each_entry: the local off
    visited,         \* the TarFiles handed to the callback in the current run, in order
    scanned,         \* the TarFiles read_file_header built in the current run, in order
    answers,         \* what the callback returned for each of visited
    result,          \* what the last for_each_entry returned
    hdrAt,           \* offset of the last block for_each_entry's header reader examined
    calls,           \* number of for_each_entry / get_file_at calls made
    lookup,          \* what the last get_file_at returned
    handles,         \* the TarFile each thread owns
    lockedBy,        \* per TarFile image mutex: the thread holding it, or 0
    tpc,             \* per thread: position inside TarFile::read / read_img_at
    arg,             \* per thread: buf.len() of its read, or the SeekFrom of its seek
    ownSeek,         \* per thread: the position the seek of its read in progress selected
    ret,             \* the call that returned last: who, what, and its result
    cast,            \* what the caller's last try_into_tarfile returned, and for which handle
    sums             \* the header last summed, with what crc_calc and signed_crc_calc gave

vars == <<blocks, filePos, last_link_name, pc, off, visited, scanned, answers, result,
          hdrAt, calls, lookup, handles, lockedBy, tpc, arg, ownSeek, ret, cast,
          sums>>

scanVars == <<pc, off, visited, scanned, answers, result, hdrAt, calls, lookup>>
ioVars == <<handles, lockedBy, tpc, arg, ownSeek, ret>>
callerVars == <<cast, sums>>

----------------------------------------------------------------------------
(* Bounds of the model *)

\* longest archive enumerated block by block
MaxBlocks == 3
\* for_each_entry / get_file_at calls made on one image
MaxCalls == 2

----------------------------------------------------------------------------
(* Program constants *)

BLOCK_SIZE == 512
T_BLOCKSIZE == 512
ChksumLen == 8
SizeLen == 12
Directory == 2
SymbolicLink == 6
Undefined_file_type == -1

----------------------------------------------------------------------------
(* Bytes, UTF-8 and octal text: what std::str::from_utf8, trim_end_matches, *)
(* trim and u64::from_str_radix do to a field.                              *)

NUL == 0
SP == 32

RECURSIVE SumSeq(_)
SumSeq(s) == IF s = <<>> THEN 0 ELSE Head(s) + SumSeq(Tail(s))

IsCont(b) == b >= 128 /\ b <= 191

\* std::str::from_utf8 succeeds on s
RECURSIVE IsUtf8(_)
IsUtf8(s) ==
    IF s = <<>> THEN TRUE
    ELSE LET b == s[1]
             n == Len(s)
         IN  IF b < 128 THEN IsUtf8(Tail(s))
             ELSE IF b >= 194 /\ b <= 223
                  THEN n >= 2 /\ IsCont(s[2]) /\ IsUtf8(SubSeq(s, 3, n))
             ELSE IF b >= 224 /\ b <= 239
                  THEN /\ n >= 3
                       /\ IsCont(s[2]) /\ IsCont(s[3])
                       /\ (b = 224 => s[2] >= 160)
                       /\ (b = 237 => s[2] <= 159)
                       /\ IsUtf8(SubSeq(s, 4, n))
             ELSE IF b >= 240 /\ b <= 244
                  THEN /\ n >= 4
                       /\ IsCont(s[2]) /\ IsCont(s[3]) /\ IsCont(s[4])
                       /\ (b = 240 => s[2] >= 144)
                       /\ (b = 244 => s[2] <= 143)
                       /\ IsUtf8(SubSeq(s, 5, n))
             ELSE FALSE

\* the UTF-8 encodings of the characters char::is_whitespace accepts
WhiteSpace ==
    { <<9>>, <<10>>, <<11>>, <<12>>, <<13>>, <<32>>, <<194, 133>>, <<194, 160>>,
      <<225, 154, 128>>, <<226, 128, 168>>, <<226, 128, 169>>, <<226, 128, 175>>,
      <<226, 129, 159>>, <<227, 128, 128>> }
    \cup { <<226, 128, b>> : b \in 128..138 }

IsPrefix(w, s) == Len(w) <= Len(s) /\ SubSeq(s, 1, Len(w)) = w
IsSuffix(w, s) == Len(w) <= Len(s) /\ SubSeq(s, Len(s) - Len(w) + 1, Len(s)) = w

\* str::trim_end_matches('\0')
RECURSIVE TrimEndNul(_)
TrimEndNul(s) ==
    IF s # <<>> /\ s[Len(s)] = NUL THEN TrimEndNul(SubSeq(s, 1, Len(s) - 1)) ELSE s

RECURSIVE TrimStart(_)
TrimStart(s) ==
    IF \E w \in WhiteSpace : IsPrefix(w, s)
    THEN LET w == CHOOSE w \in WhiteSpace : IsPrefix(w, s)
         IN  TrimStart(SubSeq(s, Len(w) + 1, Len(s)))
    ELSE s

RECURSIVE TrimEnd(_)
TrimEnd(s) ==
    IF \E w \in WhiteSpace : IsSuffix(w, s)
    THEN LET w == CHOOSE w \in WhiteSpace : IsSuffix(w, s)
         IN  TrimEnd(SubSeq(s, 1, Len(s) - Len(w)))
    ELSE s

\* str::trim
Trim(s) == TrimEnd(TrimStart(s))

IsOctDigit(b) == b >= 48 /\ b <= 55

RECURSIVE OctValue(_, _)
OctValue(s, acc) ==
    IF s = <<>> THEN acc ELSE OctValue(Tail(s), acc * 8 + (s[1] - 48))

\* u64::from_str_radix(s, 8).unwrap_or(0): an optional '+', then octal digits only.
\* A field is at most 12 bytes, so the value is below 8^12 and never overflows u64.
from_str_radix_or0(s) ==
    IF s = <<>> THEN 0
    ELSE LET digits == IF s[1] = 43 THEN Tail(s) ELSE s
         IN  IF digits = <<>> THEN 0
             ELSE IF \A i \in 1..Len(digits) : IsOctDigit(digits[i])
                  THEN OctValue(digits, 0)
                  ELSE 0

parse_octal(field) ==
    IF IsUtf8(field) THEN from_str_radix_or0(Trim(TrimEndNul(field))) ELSE 0

\* a text field: from_utf8, then trim_end_matches('\0'); an empty string on invalid UTF-8
DecodeText(f) == IF f.valid THEN f.text ELSE ""

get_name(h) == DecodeText(h.name)
get_link_name(h) == DecodeText(h.linkname)
get_size(h) == parse_octal(h.size)
get_type_flag(h) == h.typeflag

\* `as i8` of a u8
AsI8(b) == IF b >= 128 THEN b - 256 ELSE b

\* parse_octal(&self.chksum) as i32: an 8-byte field parses to less than 8^8,
\* which the cast leaves as it is
get_crc(h) == parse_octal(h.chksum)

\* the sum of all 512 bytes, minus the chksum bytes, plus 8 spaces
crc_calc(h) ==
    (h.usum + SumSeq(h.chksum)) - SumSeq(h.chksum) + SP * Len(h.chksum)

\* ' ' as i8 - b as i8 leaves i8 when the chksum byte is in 128..160
SignedOverflows(h) ==
    \E i \in 1..Len(h.chksum) : SP - AsI8(h.chksum[i]) > 127

WrapI8(x) == AsI8(x % 256)

RECURSIVE SignedFix(_)
SignedFix(c) ==
    IF c = <<>> THEN 0 ELSE WrapI8(SP - AsI8(c[1])) + SignedFix(Tail(c))

RECURSIVE SignedSum(_)
SignedSum(c) == IF c = <<>> THEN 0 ELSE AsI8(c[1]) + SignedSum(Tail(c))

\* the sum of all 512 bytes read as i8, plus (' ' as i8 - b as i8) per chksum byte,
\* the subtraction wrapping in i8 (a build without overflow checks)
signed_crc_calc(h) ==
    (h.usum - 256 * h.nhigh) + SignedSum(h.chksum) + SignedFix(h.chksum)

\* crc_ok: "ok" (true), "mismatch" (false), or "panic": in a build with overflow
\* checks the signed sum, computed only when the unsigned one differs, aborts on
\* the i8 subtraction.  The set of outcomes over both builds.
crc_ok(h) ==
    IF get_crc(h) = crc_calc(h) THEN {"ok"}
    ELSE LET signed == IF get_crc(h) = signed_crc_calc(h) THEN "ok" ELSE "mismatch"
         IN  IF SignedOverflows(h) THEN {"panic", signed} ELSE {signed}

----------------------------------------------------------------------------
(* Header blocks as an archiver writes them *)

RECURSIVE Octal(_, _)
\* n as w octal digits, zero padded
Octal(n, w) == IF w = 0 THEN <<>> ELSE Append(Octal(n \div 8, w - 1), 48 + (n % 8))

Nuls(k) == [i \in 1..k |-> NUL]
Text(s) == [valid |-> TRUE, text |-> s]

\* the ways archivers lay out the 8-byte chksum field
ChksumFormats == {"d6 NUL SP", "d6 SP NUL", "d7 NUL", "d7 SP"}

FormatChksum(v, fmt) ==
    CASE fmt = "d6 NUL SP" -> Octal(v, 6) \o <<NUL, SP>>
      [] fmt = "d6 SP NUL" -> Octal(v, 6) \o <<SP, NUL>>
      [] fmt = "d7 NUL"    -> Octal(v, 7) \o <<NUL>>
      [] fmt = "d7 SP"     -> Octal(v, 7) \o <<SP>>

\* a header whose chksum field holds the unsigned checksum of the block
Header(name, typeflag, size, linkname, usum, fmt) ==
    [name |-> name, typeflag |-> typeflag, size |-> Octal(size, SizeLen - 1) \o <<NUL>>,
     linkname |-> linkname, usum |-> usum, nhigh |-> 0,
     chksum |-> FormatChksum(usum + SP * ChksumLen, fmt)]

\* a block of file data, seen through the header layout: its first bytes are the
\* name field, the rest of the fields are the zero padding
DataBlock(text, usum) ==
    [name |-> Text(text), typeflag |-> "NUL", size |-> Nuls(SizeLen),
     linkname |-> Text(""), usum |-> usum, nhigh |-> 0, chksum |-> Nuls(ChksumLen)]

ZeroBlock == DataBlock("", 0)

LongTarget == "a/very/long/path/target"

Reg5 == Header(Text("hello.txt"), "0", 5, Text(""), 4431, "d6 SP NUL")
Hello == DataBlock("hello", 532)
Dir == Header(Text("dir/"), "5", 0, Text(""), 3904, "d7 NUL")
Sym1 == Header(Text("link1"), "1", 0, Text("trunc"), 4617, "d6 SP NUL")
Sym2 == Header(Text("link2"), "2", 0, Text("trunc"), 4619, "d6 SP NUL")
\* a long-link marker holding the target in its linkname field, with no data
K0 == Header(Text("longlink"), "K", 0, Text(LongTarget), 6120, "d6 SP NUL")
\* a GNU long-link marker: the target is its data, of size Len(target) + 1
KGnu == Header(Text("././@LongLink"), "K", 24, Text(""), 4702, "d6 SP NUL")
Payload == DataBlock(LongTarget, 2262)
\* a header as GNU tar, Go and Python write it: six digits, NUL, space
GnuFmt == Header(Text("gnu.txt"), "0", 0, Text(""), 4205, "d6 NUL SP")
\* a header whose name bytes are not UTF-8
BadUtf8 ==
    [Header([valid |-> FALSE, text |-> "caf?"], "0", 0, Text(""), 4388, "d6 SP NUL")
        EXCEPT !.nhigh = 1]

\* bit k of byte b flipped
FlipBit(b, k) == IF (b \div (2 ^ k)) % 2 = 1 THEN b - 2 ^ k ELSE b + 2 ^ k
\* block h with bit k of byte i of its chksum field flipped
Flip(h, i, k) == [h EXCEPT !.chksum[i] = FlipBit(@, k)]

BadCrc == Flip(Reg5, 5, 0)

\* Every block the model puts in an archive.  An archive, and the header copy a
\* TarFile keeps, name a block by its index in this catalogue.
BlockKinds == <<ZeroBlock, Reg5, Payload, Dir, Sym1, Sym2, K0, KGnu>>
OtherBlocks == <<Hello, GnuFmt, BadUtf8, BadCrc>>

FormatSeq == <<"d6 NUL SP", "d6 SP NUL", "d7 NUL", "d7 SP">>

\* one header per layout of the chksum field, as the archiver wrote it
Written(f) == Header(Text("hello.txt"), "0", 5, Text(""), 4431, FormatSeq[f])

\* Written(f) with bit k of byte i of its chksum field flipped, for every f, i, k
Flipped ==
    [j \in 1..(Len(FormatSeq) * ChksumLen * 8) |->
        Flip(Written(((j - 1) \div (ChksumLen * 8)) + 1),
             (((j - 1) \div 8) % ChksumLen) + 1,
             (j - 1) % 8)]

Catalog == BlockKinds \o OtherBlocks \o [f \in 1..Len(FormatSeq) |-> Written(f)] \o Flipped

Block(id) == Catalog[id]
IdOf(b) == CHOOSE id \in DOMAIN Catalog : Catalog[id] = b

\* the catalogue indexes of Flipped, and the header each was flipped from
NFixed == Len(BlockKinds) + Len(OtherBlocks)
FlippedIds == {NFixed + Len(FormatSeq) + j : j \in DOMAIN Flipped}
WrittenIds == {NFixed + f : f \in DOMAIN FormatSeq}
FlippedFrom(id) == NFixed + ((id - NFixed - Len(FormatSeq) - 1) \div (ChksumLen * 8)) + 1

\* the parsed fields of every block of the catalogue, computed once
SizeOf == [id \in DOMAIN Catalog |-> get_size(Block(id))]
CrcOf == [id \in DOMAIN Catalog |-> crc_ok(Block(id))]
NameOf == [id \in DOMAIN Catalog |-> get_name(Block(id))]
LinkNameOf == [id \in DOMAIN Catalog |-> get_link_name(Block(id))]
TypeFlagOf == [id \in DOMAIN Catalog |-> get_type_flag(Block(id))]

RECURSIVE SeqsUpTo(_, _)
SeqsUpTo(S, n) ==
    IF n = 0 THEN {<<>>}
    ELSE LET shorter == SeqsUpTo(S, n - 1)
         IN  shorter \cup {Append(s, x) : s \in {t \in shorter : Len(t) = n - 1}, x \in S}

Ids(bs) == [i \in DOMAIN bs |-> IdOf(bs[i])]

\* a header of every layout, written or with one bit flipped, and its data block,
\* first in the archive or after a directory
FlipArchives ==
    { <<id, IdOf(Hello)>> : id \in WrittenIds \cup FlippedIds }
    \cup { <<IdOf(Dir), id, IdOf(Hello)>> : id \in WrittenIds \cup FlippedIds }

\* whole archives longer than MaxBlocks
SampleArchives ==
    { Ids(<<Reg5, Hello, ZeroBlock, ZeroBlock, Dir>>),
      Ids(<<KGnu, Payload, Sym2, ZeroBlock, ZeroBlock>>),
      Ids(<<K0, Sym1, Reg5, Hello, ZeroBlock, ZeroBlock>>),
      Ids(<<GnuFmt, ZeroBlock, ZeroBlock>>),
      Ids(<<Dir, GnuFmt, Dir>>),
      Ids(<<BadUtf8, Dir>>),
      Ids(<<Dir, BadUtf8, Dir>>),
      Ids(<<BadUtf8, BadUtf8, Dir>>),
      Ids(<<Dir, BadCrc, Dir>>) }

Archives ==
    (SeqsUpTo(DOMAIN BlockKinds, MaxBlocks) \ {<<>>}) \cup FlipArchives \cup SampleArchives

----------------------------------------------------------------------------
(* TarImage: the open file and the header reader *)

\* TarImage.size, set by open from the file's metadata
size == BLOCK_SIZE * Len(blocks)

\* the block (its catalogue index) at absolute offset o, a multiple of the block size
BlockAt(o) == blocks[(o \div BLOCK_SIZE) + 1]

NoTarFile == [none |-> TRUE]

ErrShort(at) ==
    [kind |-> "UnexpectedEof", msg |-> "Error reading image at offset", offsets |-> {at}]
ErrCrc == [kind |-> "InvalidData", msg |-> "tar header checksum error", offsets |-> {}]
ErrZero == [kind |-> "InvalidData", msg |-> "tar header size is zero", offsets |-> {}]
NoErr == [kind |-> "none", msg |-> "", offsets |-> {}]

\* file.read(&mut buf) at position p with buf.len() = len: the bytes the file has there
ReadLen(p, len) == IF p >= size THEN 0 ELSE IF size - p < len THEN size - p ELSE len

\* read_img_at(offset, len): seek the shared description to offset, read once, and
\* fail unless the read filled the buffer.  fpos is where the description is left.
read_img_at(offset, len) ==
    LET n == ReadLen(offset, len)
    IN  [ok |-> n = len, n |-> n, fpos |-> offset + n]

\* tar_hdr_read_internal, entered with header_size and num_zero_blocks as the loop
\* has them: the set of its outcomes (one, or two when crc_ok may abort)
RECURSIVE hdr_loop(_, _, _)
hdr_loop(offset, header_size, num_zero_blocks) ==
    LET at == offset + header_size
        r == read_img_at(at, BLOCK_SIZE)
    IN  IF ~r.ok
        THEN {[status |-> "err", err |-> ErrShort(at), hdr |-> IdOf(ZeroBlock), n |-> 0,
               at |-> at, fpos |-> r.fpos]}
        ELSE LET hdr == BlockAt(at)
                 hs == header_size + BLOCK_SIZE
             IN  IF NameOf[hdr] = ""
                 THEN IF num_zero_blocks + 1 >= 2
                      THEN {[status |-> "ok", err |-> NoErr, hdr |-> hdr, n |-> 0,
                             at |-> at, fpos |-> r.fpos]}
                      ELSE hdr_loop(offset, hs, num_zero_blocks + 1)
                 ELSE { [status |-> IF c = "ok" THEN "ok"
                                    ELSE IF c = "panic" THEN "panic" ELSE "err",
                         err |-> IF c = "mismatch" THEN ErrCrc ELSE NoErr,
                         hdr |-> hdr, n |-> IF c = "ok" THEN hs ELSE 0,
                         at |-> at, fpos |-> r.fpos] : c \in CrcOf[hdr] }

tar_hdr_read_internal(offset) == hdr_loop(offset, 0, 0)

\* the file_type read_file_header gives a TarFile
FileTypeOf(flag) ==
    IF flag = "5" THEN Directory
    ELSE IF flag = "1" THEN SymbolicLink
    ELSE Undefined_file_type

\* TarFile::new, then the fields read_file_header sets
NewTarFile(hdr, offset, n, lln) ==
    [header |-> hdr, base_offset |-> offset, pos |-> 0,
     file_type |-> FileTypeOf(TypeFlagOf[hdr]),
     link |-> IF TypeFlagOf[hdr] = "1" /\ lln # "" THEN lln ELSE "",
     header_size |-> n]

\* read_file_header(img_info, offset) with img_info.last_link_name = lln: the set of
\* outcomes [status, err, file, n, lln (last_link_name afterwards), at, fpos]
read_file_header(offset, lln) ==
    { LET hdr == r.hdr
          lln2 == IF r.status = "ok" /\ TypeFlagOf[hdr] = "K"
                  THEN LinkNameOf[hdr] ELSE lln
      IN  IF r.status # "ok"
          THEN [status |-> r.status, err |-> r.err, file |-> NoTarFile, n |-> 0,
                lln |-> lln, at |-> r.at, fpos |-> r.fpos]
          ELSE IF r.n = 0
          THEN [status |-> "err", err |-> ErrZero, file |-> NoTarFile, n |-> 0,
                lln |-> lln2, at |-> r.at, fpos |-> r.fpos]
          ELSE [status |-> "ok", err |-> NoErr, file |-> NewTarFile(hdr, offset, r.n, lln),
                n |-> r.n, lln |-> lln2, at |-> r.at, fpos |-> r.fpos]
      : r \in tar_hdr_read_internal(offset) }

\* body_size, rounded up to whole blocks
BodySize(hdr) ==
    LET body_size == SizeOf[hdr]
    IN  IF body_size % BLOCK_SIZE = 0 THEN body_size
        ELSE ((body_size \div BLOCK_SIZE) + 1) * BLOCK_SIZE

\* Advance with the header left out of an entry's footprint
AdvanceBodyOnly(tar_file, n) ==
    IF TypeFlagOf[tar_file.header] = "K" THEN tar_file.header_size
    ELSE BodySize(tar_file.header)

\* how far for_each_entry moves off past an entry
Advance(tar_file, n) ==
    IF TypeFlagOf[tar_file.header] = "K" THEN tar_file.header_size
    ELSE n + BodySize(tar_file.header)

----------------------------------------------------------------------------
(* for_each_entry and get_file_at *)

NoResult == [kind |-> "none", err |-> NoErr]
ResOk == [kind |-> "Ok", err |-> NoErr]
ResErr(e) == [kind |-> "Err", err |-> e]

\* the failures the caller's callback may return
VisitorErrs ==
    { [kind |-> "Other", msg |-> "visitor: stop", offsets |-> {}],
      [kind |-> "PermissionDenied", msg |-> "visitor: denied", offsets |-> {}] }

NoLookup == [status |-> "none"]

\* the result of a call by thread t: Ok(n) or Err(err); for a read, the file offset
\* the bytes came from (from), the position the call's own seek selected (sought),
\* buf.len() (len), and pos when the call was made (cursor)
NoRet ==
    [t |-> 0, op |-> "none", kind |-> "none", err |-> NoErr, n |-> 0, from |-> 0,
     sought |-> 0, len |-> 0, cursor |-> 0]
Ret(t, op, kind, err, n, from, sought, len, cursor) ==
    [t |-> t, op |-> op, kind |-> kind, err |-> err, n |-> n, from |-> from,
     sought |-> sought, len |-> len, cursor |-> cursor]

\* A Box<dyn FileInfo>: the concrete type behind it, and the TarFile when it is one.
\* read_file_header and the callback get a Box<TarFile> coerced to it.
Boxed(tar_file) == [type |-> "TarFile", file |-> tar_file]
\* a value of another type that implements FileInfo
OtherFileInfo == [type |-> "Other", file |-> NoTarFile]

ErrType == [kind |-> "InvalidData", msg |-> "Type is not TarFile", offsets |-> {}]

\* try_into_tarfile with the concrete type not looked at
try_into_tarfile_unchecked(b) == [status |-> "ok", err |-> NoErr, file |-> b.file]

\* try_into_tarfile(b): into_any().downcast::<TarFile>(), an Err when the type differs
try_into_tarfile(b) ==
    IF b.type = "TarFile" THEN [status |-> "ok", err |-> NoErr, file |-> b.file]
    ELSE [status |-> "err", err |-> ErrType, file |-> NoTarFile]

NoCast == [status |-> "none"]
NoSums == [status |-> "none"]

\* no TarFile has been given to a thread
NoHandles ==
    /\ handles = <<>>
    /\ lockedBy = <<>>
    /\ tpc = <<>>
    /\ arg = <<>>
    /\ ownSeek = <<>>
    /\ ret = NoRet

\* TarImage::open on an archive, before any call
Init ==
    /\ blocks \in Archives
    /\ filePos = 0
    /\ last_link_name = ""
    /\ pc = "idle"
    /\ off = 0
    /\ visited = <<>>
    /\ scanned = <<>>
    /\ answers = <<>>
    /\ result = NoResult
    /\ hdrAt = 0
    /\ calls = 0
    /\ lookup = NoLookup
    /\ NoHandles
    /\ cast = NoCast
    /\ sums = NoSums

\* a call on the image has aborted the thread that owns it
Aborted == pc = "panicked" \/ lookup.status = "panic"

\* for_each_entry is called: off = 0
StartScan ==
    /\ pc \in {"idle", "returned"}
    /\ ~Aborted
    /\ calls < MaxCalls
    /\ calls' = calls + 1
    /\ pc' = "loop"
    /\ off' = 0
    /\ visited' = <<>>
    /\ scanned' = <<>>
    /\ answers' = <<>>
    /\ result' = NoResult
    /\ UNCHANGED <<blocks, filePos, last_link_name, hdrAt, lookup>>
    /\ UNCHANGED ioVars
    /\ UNCHANGED callerVars

\* the loop condition fails: Ok(())
ScanEnd ==
    /\ pc = "loop"
    /\ off >= size
    /\ pc' = "returned"
    /\ result' = ResOk
    /\ UNCHANGED <<blocks, filePos, last_link_name, off, visited, scanned, answers,
                   hdrAt, calls, lookup>>
    /\ UNCHANGED ioVars
    /\ UNCHANGED callerVars

\* one iteration in which read_file_header fails: the error is returned
ScanHeaderErr ==
    /\ pc = "loop"
    /\ off < size
    /\ \E r \in read_file_header(off, last_link_name) :
        /\ r.status = "err"
        /\ pc' = "returned"
        /\ result' = ResErr(r.err)
        /\ last_link_name' = r.lln
        /\ filePos' = r.fpos
        /\ hdrAt' = r.at
    /\ UNCHANGED <<blocks, off, visited, scanned, answers, calls, lookup>>
    /\ UNCHANGED ioVars
    /\ UNCHANGED callerVars

\* one iteration in which crc_ok aborts on the i8 overflow
ScanPanic ==
    /\ pc = "loop"
    /\ off < size
    /\ \E r \in read_file_header(off, last_link_name) :
        /\ r.status = "panic"
        /\ pc' = "panicked"
        /\ filePos' = r.fpos
        /\ hdrAt' = r.at
    /\ UNCHANGED <<blocks, last_link_name, off, visited, scanned, answers, result,
                   calls, lookup>>
    /\ UNCHANGED ioVars
    /\ UNCHANGED callerVars

\* CallsBack with the type flag not looked at
CallsBackAlways(tar_file) == TRUE

\* whether for_each_entry hands the entry to the callback
CallsBack(tar_file) == TypeFlagOf[tar_file.header] # "K"

\* one iteration over a long-link marker: no callback
ScanMarker ==
    /\ pc = "loop"
    /\ off < size
    /\ \E r \in read_file_header(off, last_link_name) :
        /\ r.status = "ok"
        /\ ~CallsBack(r.file)
        /\ off' = off + Advance(r.file, r.n)
        /\ scanned' = Append(scanned, r.file)
        /\ last_link_name' = r.lln
        /\ filePos' = r.fpos
        /\ hdrAt' = r.at
    /\ UNCHANGED <<blocks, pc, visited, answers, result, calls, lookup>>
    /\ UNCHANGED ioVars
    /\ UNCHANGED callerVars

\* AfterCallback with the callback's failure dropped
AfterCallbackIgnore(answer) == pc' = "loop" /\ result' = result

\* what the callback's answer does to the loop
AfterCallback(answer) ==
    IF answer = NoErr
    THEN pc' = "loop" /\ result' = result
    ELSE pc' = "returned" /\ result' = ResErr(answer)

\* one iteration over any other entry: off moves on, then the callback runs and
\* its failure, if any, is returned
ScanVisit ==
    /\ pc = "loop"
    /\ off < size
    /\ \E r \in read_file_header(off, last_link_name) :
        /\ r.status = "ok"
        /\ CallsBack(r.file)
        /\ off' = off + Advance(r.file, r.n)
        /\ scanned' = Append(scanned, r.file)
        /\ visited' = Append(visited, r.file)
        /\ last_link_name' = r.lln
        /\ filePos' = r.fpos
        /\ hdrAt' = r.at
        /\ \E answer \in {NoErr} \cup VisitorErrs :
            /\ answers' = Append(answers, answer)
            /\ AfterCallback(answer)
    /\ UNCHANGED <<blocks, calls, lookup>>
    /\ UNCHANGED ioVars
    /\ UNCHANGED callerVars

\* get_file_at(offset), between scans
GetFileAt ==
    /\ pc \in {"idle", "returned"}
    /\ ~Aborted
    /\ calls < MaxCalls
    /\ \E o \in {BLOCK_SIZE * i : i \in 0..Len(blocks)} :
       \E r \in read_file_header(o, last_link_name) :
        /\ calls' = calls + 1
        /\ lookup' = [status |-> r.status, err |-> r.err, file |-> r.file, offset |-> o,
                       at |-> r.at]
        /\ last_link_name' = r.lln
        /\ filePos' = r.fpos
    /\ UNCHANGED <<blocks, pc, off, visited, scanned, answers, result, hdrAt>>
    /\ UNCHANGED ioVars
    /\ UNCHANGED callerVars

Next ==
    \/ StartScan
    \/ ScanEnd
    \/ ScanHeaderErr
    \/ ScanPanic
    \/ ScanMarker
    \/ ScanVisit
    \/ GetFileAt

Spec == Init /\ [][Next]_vars

----------------------------------------------------------------------------
(* The caller's side: try_into_tarfile on the handles it holds *)

\* the Box<dyn FileInfo> values the caller holds: what the callback of the
\* current run was handed, what get_file_at returned, and a value of its own type
CallerHandles ==
    {Boxed(visited[i]) : i \in DOMAIN visited}
    \cup (IF lookup.status = "ok" THEN {Boxed(lookup.file)} ELSE {})
    \cup {OtherFileInfo}

\* the caller applies try_into_tarfile to one of its handles
Downcast ==
    /\ ~Aborted
    /\ \E b \in CallerHandles :
        LET r == try_into_tarfile(b)
        IN  cast' = [status |-> r.status, err |-> r.err, file |-> r.file, input |-> b]
    /\ UNCHANGED sums
    /\ UNCHANGED <<blocks, filePos, last_link_name>>
    /\ UNCHANGED scanVars
    /\ UNCHANGED ioVars

\* the archives the caller's side is run on
CastArchives ==
    SampleArchives
    \cup { <<IdOf(Flip(Written(2), 7, 7)), IdOf(Hello)>>, Ids(<<K0, Sym1>>), Ids(<<Dir>>) }

InitCast == Init /\ blocks \in CastArchives

NextCast ==
    \/ StartScan
    \/ ScanEnd
    \/ ScanHeaderErr
    \/ ScanPanic
    \/ ScanMarker
    \/ ScanVisit
    \/ GetFileAt
    \/ Downcast

SpecCast == InitCast /\ [][NextCast]_vars

----------------------------------------------------------------------------
(* The checksum sums on their own *)

\* the headers summed: every block of the catalogue, and the header of hello.txt
\* with one byte of its chksum field set to each value a byte can have
CrcInputs ==
    {Block(id) : id \in DOMAIN Catalog}
    \cup {[Reg5 EXCEPT !.chksum[i] = b] : i \in 1..ChksumLen, b \in 0..255}

\* what signed_crc_calc(h) does: it aborts on the i8 subtraction in a build with
\* overflow checks, and returns the wrapped sum in one without
signed_crc_outcomes(h) ==
    {[panic |-> FALSE, value |-> signed_crc_calc(h)]}
    \cup (IF SignedOverflows(h) THEN {[panic |-> TRUE, value |-> 0]} ELSE {})

\* crc_calc and signed_crc_calc are called on a header, once per header picked
CalcCrc ==
    /\ sums = NoSums
    /\ \E h \in CrcInputs : \E o \in signed_crc_outcomes(h) :
        sums' = [status |-> "done", hdr |-> h, unsigned |-> crc_calc(h), signed |-> o]
    /\ UNCHANGED <<blocks, filePos, last_link_name, cast>>
    /\ UNCHANGED scanVars
    /\ UNCHANGED ioVars

\* the file the headers are taken from
InitCrc == Init /\ blocks = Ids(<<Reg5, Hello, ZeroBlock, ZeroBlock, Dir>>)

NextCrc == CalcCrc

SpecCrc == InitCrc /\ [][NextCrc]_vars

----------------------------------------------------------------------------
(* TarFile: Read and Seek, by threads that share the open file *)

\* the threads that own a TarFile, and the thread that owns the TarImage
Threads == {1, 2}
Scanner == 3

\* buf.len() of the reads
BufLens == {3, 8}

\* the SeekFrom values of the seeks
SeekArgs ==
    { [whence |-> "Start", n |-> 2], [whence |-> "End", n |-> 0],
      [whence |-> "Current", n |-> -600] }

\* the offsets read_img_at is called with
ImgOffsets == {BLOCK_SIZE}

ErrLock == [kind |-> "Other", msg |-> "Failed to lock TarImage", offsets |-> {}]
ErrSeek == [kind |-> "InvalidInput", msg |-> "invalid seek", offsets |-> {}]
ErrNoData == [kind |-> "UnexpectedEof", msg |-> "not enough data", offsets |-> {}]

IOArchives ==
    { Ids(<<Reg5, Hello, ZeroBlock, ZeroBlock>>),
      Ids(<<ZeroBlock, Reg5, Hello, Dir>>) }

\* the TarFiles read_file_header builds on archive bs
RECURSIVE EntriesFrom(_, _)
EntriesFrom(bs, i) ==
    IF i > Len(bs) THEN {}
    ELSE {r.file : r \in {x \in read_file_header(BLOCK_SIZE * (i - 1), "") : x.status = "ok"}}
         \cup EntriesFrom(bs, i + 1)

\* Two threads each own a TarFile of the image, fresh from read_file_header: two
\* entries, each with the mutex read_file_header made for it, or one entry and
\* its clone, which share a mutex.  The third thread owns the TarImage.
InitIO ==
    /\ blocks \in IOArchives
    /\ filePos = 0
    /\ last_link_name = ""
    /\ pc = "idle"
    /\ off = 0
    /\ visited = <<>>
    /\ scanned = <<>>
    /\ answers = <<>>
    /\ result = NoResult
    /\ hdrAt = 0
    /\ calls = 0
    /\ lookup = NoLookup
    /\ \E f1, f2 \in EntriesFrom(blocks, 1) : \E m \in {1, 2} :
        /\ (m = 1 => f1 = f2)
        /\ handles = [t \in Threads |-> IF t = 1 THEN [file |-> f1, image |-> 1]
                                        ELSE [file |-> f2, image |-> m]]
    /\ lockedBy = [m \in {1, 2} |-> 0]
    /\ tpc = [t \in Threads \cup {Scanner} |-> "idle"]
    /\ arg = [t \in Threads \cup {Scanner} |-> 0]
    /\ ownSeek = [t \in Threads \cup {Scanner} |-> 0]
    /\ ret = NoRet
    /\ cast = NoCast
    /\ sums = NoSums

EntrySize(t) == SizeOf[handles[t].file.header]
Cursor(t) == handles[t].file.pos
Mutex(t) == handles[t].image

\* ReadContended with the cursor moved by the failed call
ReadContendedDirty(t) ==
    /\ tpc[t] = "idle"
    /\ lockedBy[Mutex(t)] # 0
    /\ ret' = Ret(t, "read", "Err", ErrLock, 0, 0, 0, 0, Cursor(t))
    /\ handles' = [handles EXCEPT ![t].file.pos = @ + 1]
    /\ UNCHANGED <<blocks, filePos, last_link_name, lockedBy, tpc, arg, ownSeek>>
    /\ UNCHANGED scanVars
    /\ UNCHANGED callerVars

\* read: try_lock fails because another holder has the mutex
ReadContended(t) ==
    /\ tpc[t] = "idle"
    /\ lockedBy[Mutex(t)] # 0
    /\ ret' = Ret(t, "read", "Err", ErrLock, 0, 0, 0, 0, Cursor(t))
    /\ UNCHANGED <<blocks, filePos, last_link_name, handles, lockedBy, tpc, arg, ownSeek>>
    /\ UNCHANGED scanVars
    /\ UNCHANGED callerVars

\* read: the mutex is taken, pos >= size, Ok(0); the guard is dropped on return
ReadEof(t) ==
    /\ tpc[t] = "idle"
    /\ lockedBy[Mutex(t)] = 0
    /\ Cursor(t) >= EntrySize(t)
    /\ ret' = Ret(t, "read", "Ok", NoErr, 0, 0, 0, 0, Cursor(t))
    /\ UNCHANGED <<blocks, filePos, last_link_name, handles, lockedBy, tpc, arg, ownSeek>>
    /\ UNCHANGED scanVars
    /\ UNCHANGED callerVars

\* read(buf): the mutex is taken and pos < size
ReadBegin(t) ==
    /\ tpc[t] = "idle"
    /\ lockedBy[Mutex(t)] = 0
    /\ Cursor(t) < EntrySize(t)
    /\ \E len \in BufLens : arg' = [arg EXCEPT ![t] = len]
    /\ lockedBy' = [lockedBy EXCEPT ![Mutex(t)] = t]
    /\ tpc' = [tpc EXCEPT ![t] = "read_seek"]
    /\ UNCHANGED <<blocks, filePos, last_link_name, handles, ownSeek, ret>>
    /\ UNCHANGED scanVars
    /\ UNCHANGED callerVars

\* the position read hands to img.seek
ReadSeekTarget(f) == f.pos

\* img.seek(SeekFrom::Start(self.pos)) on a clone of the file, which moves the
\* shared description
ReadSeek(t) ==
    /\ tpc[t] = "read_seek"
    /\ filePos' = ReadSeekTarget(handles[t].file)
    /\ ownSeek' = [ownSeek EXCEPT ![t] = ReadSeekTarget(handles[t].file)]
    /\ tpc' = [tpc EXCEPT ![t] = "read_read"]
    /\ UNCHANGED <<blocks, last_link_name, handles, lockedBy, arg, ret>>
    /\ UNCHANGED scanVars
    /\ UNCHANGED callerVars

\* img.read(buf) on a clone of the file, from wherever the shared description is;
\* pos moves by the bytes read and the guard is dropped
ReadRead(t) ==
    /\ tpc[t] = "read_read"
    /\ LET n == ReadLen(filePos, arg[t])
       IN  /\ ret' = Ret(t, "read", "Ok", NoErr, n, filePos, ownSeek[t], arg[t], Cursor(t))
           /\ filePos' = filePos + n
           /\ handles' = [handles EXCEPT ![t].file.pos = @ + n]
    /\ lockedBy' = [lockedBy EXCEPT ![Mutex(t)] = 0]
    /\ tpc' = [tpc EXCEPT ![t] = "idle"]
    /\ arg' = [arg EXCEPT ![t] = 0]
    /\ ownSeek' = [ownSeek EXCEPT ![t] = 0]
    /\ UNCHANGED <<blocks, last_link_name>>
    /\ UNCHANGED scanVars
    /\ UNCHANGED callerVars

\* seek: try_lock fails
SeekContended(t) ==
    /\ tpc[t] = "idle"
    /\ lockedBy[Mutex(t)] # 0
    /\ ret' = Ret(t, "seek", "Err", ErrLock, 0, 0, 0, 0, Cursor(t))
    /\ UNCHANGED <<blocks, filePos, last_link_name, handles, lockedBy, tpc, arg, ownSeek>>
    /\ UNCHANGED scanVars
    /\ UNCHANGED callerVars

\* the SeekFrom TarFile::seek hands to img.seek
SeekNewPos(f, a) ==
    IF a.whence = "Start" THEN [whence |-> "Start", n |-> f.base_offset + a.n] ELSE a

\* seek(pos): the mutex is taken
SeekBegin(t) ==
    /\ tpc[t] = "idle"
    /\ lockedBy[Mutex(t)] = 0
    /\ \E a \in SeekArgs : arg' = [arg EXCEPT ![t] = SeekNewPos(handles[t].file, a)]
    /\ lockedBy' = [lockedBy EXCEPT ![Mutex(t)] = t]
    /\ tpc' = [tpc EXCEPT ![t] = "seek_seek"]
    /\ UNCHANGED <<blocks, filePos, last_link_name, handles, ownSeek, ret>>
    /\ UNCHANGED scanVars
    /\ UNCHANGED callerVars

\* where File::seek(a) puts the description, negative when it fails
FileSeek(a) ==
    IF a.whence = "Start" THEN a.n
    ELSE IF a.whence = "End" THEN size + a.n
    ELSE filePos + a.n

\* img.seek(new_pos) on a clone of the file; the guard is dropped.  pos is unchanged.
SeekSeek(t) ==
    /\ tpc[t] = "seek_seek"
    /\ LET target == FileSeek(arg[t])
       IN  IF target < 0
           THEN /\ ret' = Ret(t, "seek", "Err", ErrSeek, 0, 0, 0, 0, Cursor(t))
                /\ UNCHANGED filePos
           ELSE /\ ret' = Ret(t, "seek", "Ok", NoErr, target, 0, 0, 0, Cursor(t))
                /\ filePos' = target
    /\ lockedBy' = [lockedBy EXCEPT ![Mutex(t)] = 0]
    /\ tpc' = [tpc EXCEPT ![t] = "idle"]
    /\ arg' = [arg EXCEPT ![t] = 0]
    /\ UNCHANGED <<blocks, last_link_name, handles, ownSeek>>
    /\ UNCHANGED scanVars
    /\ UNCHANGED callerVars

\* read_img_at(offset, 512) by the owner of the TarImage: file.seek on a clone
ImgSeek ==
    /\ tpc[Scanner] = "idle"
    /\ \E o \in ImgOffsets :
        /\ filePos' = o
        /\ ownSeek' = [ownSeek EXCEPT ![Scanner] = o]
    /\ tpc' = [tpc EXCEPT ![Scanner] = "img_read"]
    /\ UNCHANGED <<blocks, last_link_name, handles, lockedBy, arg, ret>>
    /\ UNCHANGED scanVars
    /\ UNCHANGED callerVars

\* read_img_at: file.read on the clone, an error unless 512 bytes came
ImgRead ==
    /\ tpc[Scanner] = "img_read"
    /\ LET n == ReadLen(filePos, BLOCK_SIZE)
       IN  /\ ret' = Ret(Scanner, "read_img_at", IF n = BLOCK_SIZE THEN "Ok" ELSE "Err",
                      IF n = BLOCK_SIZE THEN NoErr ELSE ErrNoData,
                      n, filePos, ownSeek[Scanner], BLOCK_SIZE, 0)
           /\ filePos' = filePos + n
    /\ tpc' = [tpc EXCEPT ![Scanner] = "idle"]
    /\ ownSeek' = [ownSeek EXCEPT ![Scanner] = 0]
    /\ UNCHANGED <<blocks, last_link_name, handles, lockedBy, arg>>
    /\ UNCHANGED scanVars
    /\ UNCHANGED callerVars

NextIO ==
    \/ \E t \in Threads :
        \/ ReadContended(t)
        \/ ReadEof(t)
        \/ ReadBegin(t)
        \/ ReadSeek(t)
        \/ ReadRead(t)
        \/ SeekContended(t)
        \/ SeekBegin(t)
        \/ SeekSeek(t)
    \/ ImgSeek
    \/ ImgRead

SpecIO == InitIO /\ [][NextIO]_vars

----------------------------------------------------------------------------
(* Properties of for_each_entry *)

\* the name field of the block is all zero bytes
ZeroName(id) == Block(id).name = Text("")

\* the run has returned after reading, at off, two blocks whose name field is zero
AtTerminator ==
    /\ pc = "returned"
    /\ off + 2 * BLOCK_SIZE <= size
    /\ ZeroName(BlockAt(off))
    /\ ZeroName(BlockAt(off + BLOCK_SIZE))
    /\ hdrAt = off + BLOCK_SIZE

\* C1: when the scan reaches two consecutive blocks whose name field is all zero,
\* for_each_entry returns Ok and has called the visitor for nothing at or after
\* that position.
C1_TerminatorEndsScanOk ==
    AtTerminator =>
        /\ result = ResOk
        /\ \A i \in DOMAIN visited : visited[i].base_offset < off

\* C4: the offsets of the entries handed to the visitor in one run are strictly
\* increasing in visit order, and each is the offset of a block of the file.
C4_OffsetsIncrease ==
    /\ \A i, j \in DOMAIN visited :
          i < j => visited[i].base_offset < visited[j].base_offset
    /\ \A i \in DOMAIN visited :
          /\ visited[i].base_offset % BLOCK_SIZE = 0
          /\ visited[i].base_offset < size

\* C4 witness: a run that has handed three entries to the visitor
C4_Witness == Len(visited) >= 3

IsMarker(f) == TypeFlagOf[f.header] = "K"
NotMarker(f) == ~IsMarker(f)

\* C10: once the visitor fails for an entry, for_each_entry has returned exactly
\* that failure, that entry is the last one visited and the last one read, and
\* every entry read before it that is not a marker was handed to the visitor
\* exactly once, in order.
C10_VisitorFailureStops ==
    /\ Len(answers) = Len(visited)
    /\ visited = SelectSeq(scanned, NotMarker)
    /\ \A i \in DOMAIN answers :
          answers[i] # NoErr =>
              /\ i = Len(answers)
              /\ pc = "returned"
              /\ result = ResErr(answers[i])
              /\ scanned[Len(scanned)] = visited[i]

\* C10 witness: the visitor failed for the third entry read, after a marker and
\* an entry it accepted
C10_Witness ==
    /\ pc = "returned"
    /\ result.err \in VisitorErrs
    /\ Len(visited) >= 2
    /\ Len(scanned) > Len(visited)

\* a header block as an archiver writes it, in a chksum layout crc_ok accepts
IsEntryHeader(id) == Block(id) \in {Reg5, Dir, Sym1, Sym2, K0, KGnu}

\* the number of data blocks the header's size field announces
DataBlocks(id) == (SizeOf[id] + BLOCK_SIZE - 1) \div BLOCK_SIZE

\* The archive read by the format from block i on: header, data blocks, header, ...
\* up to two zero blocks or the end of the file; the data of a long-link marker is
\* a name.  "end" is the offset of the terminator, or the file's size when there
\* is none.
RECURSIVE Layout(_, _)
Layout(bs, i) ==
    IF i > Len(bs) THEN [valid |-> TRUE, end |-> BLOCK_SIZE * Len(bs), headers |-> {}]
    ELSE IF ZeroName(bs[i])
    THEN [valid |-> i + 1 <= Len(bs) /\ ZeroName(bs[i + 1]),
          end |-> BLOCK_SIZE * (i - 1), headers |-> {}]
    ELSE IF /\ IsEntryHeader(bs[i])
            /\ i + DataBlocks(bs[i]) <= Len(bs)
            /\ (Block(bs[i]).typeflag = "K" /\ DataBlocks(bs[i]) > 0
                    => Block(bs[i + 1]).name.text # "")
    THEN LET rest == Layout(bs, i + 1 + DataBlocks(bs[i]))
         IN  [rest EXCEPT !.headers = @ \cup {i}]
    ELSE [valid |-> FALSE, end |-> 0, headers |-> {}]

ValidArchive == Layout(blocks, 1).valid

\* the run has returned and the visitor never failed
ScanRanToEnd ==
    /\ pc = "returned"
    /\ \A i \in DOMAIN answers : answers[i] = NoErr

\* what an entry takes on disk: its header, and unless it is a long-link marker
\* its data rounded up to whole blocks
Footprint(f) ==
    IF IsMarker(f) THEN f.header_size
    ELSE f.header_size + BLOCK_SIZE * DataBlocks(f.header)

RECURSIVE FootprintSum(_)
FootprintSum(fs) == IF fs = <<>> THEN 0 ELSE Footprint(Head(fs)) + FootprintSum(Tail(fs))

\* C5: on a valid archive, when the scan ends the footprints it consumed (header
\* plus padded data per visited entry, header alone per long-link marker) add up
\* to the offset of the terminator or, without one, to the size of the file.
C5_FootprintsReachEnd ==
    (ValidArchive /\ ScanRanToEnd) =>
        /\ off = FootprintSum(scanned)
        /\ FootprintSum(scanned) = Layout(blocks, 1).end

\* the name a long-link marker carries: its data when it has any (the GNU
\* layout), else its linkname field
MarkerPayload(bs, i) ==
    IF DataBlocks(bs[i]) > 0 THEN Block(bs[i + 1]).name.text ELSE Block(bs[i]).linkname.text

\* block i is a long-link marker and the header right after it is a symbolic link
MarkerThenSymlink(bs, i) ==
    /\ i \in Layout(bs, 1).headers
    /\ Block(bs[i]).typeflag = "K"
    /\ i + 1 + DataBlocks(bs[i]) \in Layout(bs, 1).headers
    /\ Block(bs[i + 1 + DataBlocks(bs[i])]).typeflag = "2"

\* C7: a symbolic-link entry that follows a long-link marker on disk is visited,
\* with the marker's payload name as its link target.
C7_SymlinkTakesMarkerName ==
    (ValidArchive /\ ScanRanToEnd) =>
        \A i \in DOMAIN blocks :
            MarkerThenSymlink(blocks, i) =>
                \E v \in DOMAIN visited :
                    /\ visited[v].base_offset = BLOCK_SIZE * (i + DataBlocks(blocks[i]))
                    /\ visited[v].link = MarkerPayload(blocks, i)

\* for_each_entry has been to the block at offset o: it returned or aborted, and
\* the visitor failed for no entry before o
ScanCameTo(o) ==
    /\ pc \in {"returned", "panicked"}
    /\ \A i \in DOMAIN answers : answers[i] # NoErr => visited[i].base_offset >= o

\* C8: a header with one bit of its chksum field flipped, at offset o: the scan
\* returns a checksum error that names o, and the visitor got nothing at or after o.
C8_FlippedBitRejected ==
    \A i \in DOMAIN blocks :
        LET o == BLOCK_SIZE * (i - 1)
        IN  (blocks[i] \in FlippedIds /\ i \in {1, 2} /\ ScanCameTo(o)) =>
                /\ result = ResErr(result.err)
                /\ result.err.kind = "InvalidData"
                /\ result.err.msg = ErrCrc.msg
                /\ o \in result.err.offsets
                /\ \A v \in DOMAIN visited : visited[v].base_offset < o

\* the headers of the catalogue whose chksum field is the block's checksum in
\* octal digits followed by NUL and/or space
StandardHeaderIds ==
    WrittenIds \cup {id \in DOMAIN Catalog : IsEntryHeader(id) \/ Block(id) = GnuFmt}

\* C9: the scan never rejects, as a checksum error, a header whose chksum field
\* holds its checksum in octal followed by NUL and/or space padding.
C9_StandardChecksumAccepted ==
    (pc = "returned" /\ result = ResErr(ErrCrc)) => BlockAt(hdrAt) \notin StandardHeaderIds

----------------------------------------------------------------------------
(* Properties of TarFile's Read and Seek *)

\* the last call to return was a read of a TarFile that got past try_lock with
\* its cursor before the end of the entry, and img.read gave it bytes
ReadReturnedData ==
    /\ ret.op = "read"
    /\ ret.kind = "Ok"
    /\ ret.len > 0
    /\ ret.cursor < EntrySize(ret.t)

\* where the data of the entry of thread t starts in the file
DataStart(t) == handles[t].file.base_offset + handles[t].file.header_size

\* C2: a read of an entry with base offset b, header footprint h, size s and
\* cursor c < s returns the bytes of the file that start at b + h + c, and no
\* more of them than the entry has left.
C2_ReadFromDataRegion ==
    ReadReturnedData =>
        /\ ret.from = DataStart(ret.t) + ret.cursor
        /\ ret.n <= EntrySize(ret.t) - ret.cursor

\* the last call to return did a seek and then a read on the open file
SeekReadPairDone ==
    /\ ret.op \in {"read", "read_img_at"}
    /\ ret.len > 0

\* C3: the bytes a read returns, by a TarFile or by read_img_at, are those at the
\* position the same call's own seek selected.
C3_SeekReadPairAtomic ==
    SeekReadPairDone => ret.from = ret.sought

\* the last call to return was a read of a TarFile whose cursor was at or past
\* the size of its entry
ReadAtEof ==
    /\ ret.op = "read"
    /\ ret.cursor >= EntrySize(ret.t)

\* C6: a read of an entry whose cursor is at or past its size returns Ok(0),
\* never an error, and leaves the cursor where it was.
C6_EofReadIsOkZero ==
    ReadAtEof =>
        /\ ret.kind = "Ok"
        /\ ret.n = 0
        /\ Cursor(ret.t) = ret.cursor

----------------------------------------------------------------------------
(* Properties of the scan: end of file, markers, offsets, sentinels *)

\* The archive read by the format from block i on when it has no terminator:
\* header, data blocks, header, ... up to the end of the file, a single block
\* with a zero name being stepped over.  Not valid when two such blocks follow
\* each other.
RECURSIVE Unterminated(_, _)
Unterminated(bs, i) ==
    IF i > Len(bs) THEN [valid |-> TRUE, headers |-> {}]
    ELSE IF ZeroName(bs[i])
    THEN IF i + 1 <= Len(bs) /\ ZeroName(bs[i + 1])
         THEN [valid |-> FALSE, headers |-> {}]
         ELSE Unterminated(bs, i + 1)
    ELSE IF /\ IsEntryHeader(bs[i])
            /\ i + DataBlocks(bs[i]) <= Len(bs)
            /\ (Block(bs[i]).typeflag = "K" /\ DataBlocks(bs[i]) > 0
                    => Block(bs[i + 1]).name.text # "")
    THEN LET rest == Unterminated(bs, i + 1 + DataBlocks(bs[i]))
         IN  [rest EXCEPT !.headers = @ \cup {i}]
    ELSE [valid |-> FALSE, headers |-> {}]

\* the headers of an unterminated archive that are entries, not markers
EntryHeaders(bs) == {i \in Unterminated(bs, 1).headers : Block(bs[i]).typeflag # "K"}

\* C11: on a file of whole entries that ends without the two-zero-block
\* terminator, for_each_entry returns Ok once the visitor has accepted every
\* entry of the file.
C11_EndOfSourceIsOk ==
    (Unterminated(blocks, 1).valid /\ ScanRanToEnd) =>
        /\ result = ResOk
        /\ Len(visited) = Cardinality(EntryHeaders(blocks))

\* C12: the visitor is never handed a long-link marker, and every other entry
\* read_file_header built in the run was handed to it exactly once.
C12_MarkersNeverSurface ==
    /\ \A v \in DOMAIN visited : TypeFlagOf[visited[v].header] # "K"
    /\ \A i \in DOMAIN scanned :
          TypeFlagOf[scanned[i].header] # "K" =>
              Cardinality({v \in DOMAIN visited : visited[v] = scanned[i]}) = 1

\* C12 witness: a run that stepped over a marker and handed the entry right
\* after it to a visitor that accepted it
C12_Witness ==
    \E i \in DOMAIN scanned :
        /\ TypeFlagOf[scanned[i].header] = "K"
        /\ i < Len(scanned)
        /\ \E v \in DOMAIN visited : visited[v] = scanned[i + 1] /\ answers[v] = NoErr

\* C13: try_into_tarfile returns the TarFile for every handle the callback or
\* get_file_at gave the caller, and for a handle of another type it returns the
\* error "Type is not TarFile" and no entry.
C13_DowncastTotal ==
    cast.status # "none" =>
        IF cast.input.type = "TarFile"
        THEN cast.status = "ok" /\ cast.file = cast.input.file /\ cast.err = NoErr
        ELSE cast.status = "err" /\ cast.err = ErrType /\ cast.file = NoTarFile

\* C13 witness: after a run that visited an entry, the caller got the error for
\* a handle of another type
C13_Witness ==
    /\ Len(visited) >= 1
    /\ cast.status = "err"
    /\ cast.input = OtherFileInfo

----------------------------------------------------------------------------
(* Properties of the cursor of a TarFile *)

\* C14: whatever reads and seeks were made on a TarFile, its cursor is at most
\* the size of its entry, and no read returned more bytes than the entry had
\* left at the cursor.
C14_CursorWithinSize ==
    /\ \A t \in DOMAIN handles : Cursor(t) <= EntrySize(t)
    /\ (ret.op = "read" /\ ret.kind = "Ok" /\ ret.cursor <= EntrySize(ret.t)) =>
           ret.n <= EntrySize(ret.t) - ret.cursor

\* thread t is about to return from a seek that succeeds
SeekReturnsOk(t) ==
    /\ tpc[t] = "seek_seek"
    /\ tpc'[t] = "idle"
    /\ ret'.op = "seek" /\ ret'.t = t /\ ret'.kind = "Ok"

\* the position inside the entry that the seek in progress of thread t names:
\* Start(p) has had base_offset added by now, End counts from the entry's size,
\* Current from the cursor
SeekSelects(t) ==
    IF arg[t].whence = "Start" THEN arg[t].n - handles[t].file.base_offset
    ELSE IF arg[t].whence = "End" THEN EntrySize(t) + arg[t].n
    ELSE Cursor(t) + arg[t].n

\* C15: a seek that succeeds leaves the cursor of the TarFile, from which its next
\* read takes its position, at the position the seek named.
C15_SeekMovesCursor ==
    [][\A t \in Threads : SeekReturnsOk(t) => Cursor(t)' = SeekSelects(t)]_vars

----------------------------------------------------------------------------
(* Properties of the entries read_file_header builds *)

\* the TarFiles the caller has been given: by the callback of the current run,
\* and by the last get_file_at
Produced ==
    {visited[i] : i \in DOMAIN visited}
    \cup (IF lookup.status = "ok" THEN {lookup.file} ELSE {})

\* C16: the offset of every entry handed out is the offset of the block its
\* header was read from, and its header footprint is one block.
C16_OffsetIsOwnHeader ==
    \A f \in Produced :
        /\ f.base_offset % BLOCK_SIZE = 0
        /\ f.base_offset < size
        /\ BlockAt(f.base_offset) = f.header
        /\ f.header_size = BLOCK_SIZE

\* the blocks the header reader stepped over or counted as sentinels: the block
\* before the header of an entry whose header_size is two blocks, and both blocks
\* read when a run ended on "tar header size is zero"
TreatedAsSentinel ==
    {f.base_offset : f \in {g \in Produced \cup {scanned[i] : i \in DOMAIN scanned} :
                                 g.header_size > BLOCK_SIZE}}
    \cup (IF pc = "returned" /\ result = ResErr(ErrZero)
          THEN {hdrAt - BLOCK_SIZE, hdrAt} ELSE {})

\* C17: a block is treated as a sentinel only if its name field is all zero
\* bytes; a name with a non-zero byte, valid UTF-8 or not, is never stepped over
\* nor counted toward the terminator.
C17_SentinelIffZeroName ==
    \A o \in TreatedAsSentinel : ZeroName(BlockAt(o))

----------------------------------------------------------------------------
(* Progress of the scan *)

\* one pass through the body of the loop of for_each_entry
Iteration == pc = "loop" /\ off < size /\ <<pc, off, hdrAt, scanned>>' # <<pc, off, hdrAt, scanned>>

\* C18: every iteration of the loop of for_each_entry either returns an error or
\* moves off forward by at least one block, and the header reader looks at no
\* block beyond the second one from off; so the loop ends on a finite file.
C18_ScanProgress ==
    [][Iteration =>
          /\ \/ pc' = "returned" /\ result'.kind = "Err"
             \/ pc' = "loop" /\ off' >= off + BLOCK_SIZE
          /\ hdrAt' \in {off, off + BLOCK_SIZE}]_vars

----------------------------------------------------------------------------
(* The long-link state across calls *)

\* the markers among the first i - 1 entries the current run read
MarkersBefore(sc, i) == {j \in 1..(i - 1) : TypeFlagOf[sc[j].header] = "K"}

\* the link the i-th entry read by a run gets when only the markers of that run,
\* which are the markers before it in the file, are consulted
LinkFromThisRun(sc, i) ==
    LET ks == MarkersBefore(sc, i)
        last == CHOOSE j \in ks : \A k \in ks : k <= j
        pending == IF ks = {} THEN "" ELSE LinkNameOf[sc[last].header]
    IN  IF TypeFlagOf[sc[i].header] = "1" /\ pending # "" THEN pending ELSE ""

\* C19: the link target of every entry a run visits is what the blocks of the
\* file before it give, whatever calls were made on the image before the run.
C19_LinkFromSourceAlone ==
    \A i \in DOMAIN scanned : scanned[i].link = LinkFromThisRun(scanned, i)

----------------------------------------------------------------------------
(* Properties of the checksum sums *)

\* the bytes of the block outside the chksum field, read as i8, summed
SignedRest(h) == h.usum - 256 * h.nhigh

\* C20: signed_crc_calc returns the sum of the 512 bytes read as i8 with the
\* chksum field counted as eight spaces, crc_calc the same sum with the bytes
\* read as u8, and neither aborts, whatever bytes the chksum field holds.
C20_SumsCountChksumAsSpaces ==
    sums.status = "done" =>
        /\ sums.unsigned = sums.hdr.usum + SP * ChksumLen
        /\ ~sums.signed.panic
        /\ sums.signed.value = SignedRest(sums.hdr) + SP * ChksumLen

\* the markers with a non-empty link name among the first i - 1 entries the
\* current run read
NamedMarkersBefore(sc, i) == {j \in MarkersBefore(sc, i) : LinkNameOf[sc[j].header] # ""}

\* the link name of the last of them
LastMarkerName(sc, i) ==
    LET ks == NamedMarkersBefore(sc, i)
    IN  LinkNameOf[sc[CHOOSE j \in ks : \A k \in ks : k <= j].header]

\* the entry is a symbolic link of the tar format
IsSymlinkEntry(f) == TypeFlagOf[f.header] = "2"

\* C21: within one run, every symbolic-link entry built after a long-link marker
\* with a non-empty name has the name of the most recent such marker as its link
\* target, whether or not an earlier entry has used that name already.
C21_PendingNamePersists ==
    \A i \in DOMAIN scanned :
        (IsSymlinkEntry(scanned[i]) /\ NamedMarkersBefore(scanned, i) # {}) =>
            scanned[i].link = LastMarkerName(scanned, i)

----------------------------------------------------------------------------
(* Properties of a contended call *)

\* thread t makes a read or seek call, and returns from it, while another holder
\* has the mutex of its TarFile
ContendedCall(t) ==
    /\ tpc[t] = "idle"
    /\ lockedBy[Mutex(t)] # 0
    /\ ret' # ret
    /\ ret'.t = t

\* the call failed on the lock and touched nothing: not the TarFile, not the
\* open file, not the mutex or the call in progress of its holder
FailedClean(t) ==
    /\ ret'.kind = "Err"
    /\ ret'.err = ErrLock
    /\ tpc' = tpc
    /\ handles' = handles
    /\ lockedBy' = lockedBy
    /\ <<blocks, filePos, last_link_name, arg, ownSeek>>' =
           <<blocks, filePos, last_link_name, arg, ownSeek>>

\* a read fails only on the lock, so with the mutex free it succeeds
ReadFailsOnlyOnLock == (ret.op = "read" /\ ret.kind = "Err") => ret.err = ErrLock

\* C22: a read or seek that finds the mutex of its TarFile held returns the lock
\* error in the same step, without waiting, and leaves the cursor, the open file
\* and the holder's call as they were; the lock is the only thing a read fails
\* on, so the same read succeeds once the mutex is free.
C22_ContentionFailsClean ==
    /\ [][\A t \in Threads : ContendedCall(t) => FailedClean(t)]_vars
    /\ []ReadFailsOnlyOnLock

\* C22 witness: a call has just failed on the lock, on a TarFile whose cursor an
\* earlier read had moved, while the holder is still inside its call
C22_Witness ==
    /\ ret.kind = "Err"
    /\ ret.err = ErrLock
    /\ ret.t \in Threads
    /\ Cursor(ret.t) > 0
    /\ lockedBy[Mutex(ret.t)] \notin {0, ret.t}

====
